---- MODULE Spec2Model ----
(***************************************************************************)
(* HealthAI Flask backend, src/Document/app.py: the outbound AI client     *)
(* get_granite_response.  One call is a sequence of steps (configuration   *)
(* guard, requests.post, raise_for_status, response.json, the shape test,  *)
(* the except clauses, the return); the remote provider and the network    *)
(* are the environment and choose the transport behaviour of each call.    *)
(* The Streamlit frontend's helper call_flask_api                          *)
(* (src/Document/streamlit_app.py) is modelled the same way, against an    *)
(* arbitrary backend.                                                      *)
(***************************************************************************)
EXTENDS Integers, Sequences, FiniteSets, TLC

VARIABLES
    ibm_api_key,      \* module global, os.getenv("IBM_API_KEY")
    ibm_project_id,   \* module global, os.getenv("IBM_PROJECT_ID")
    pc,               \* position of the running call
    prompt_text,      \* argument of the running call
    transport,        \* what the network / provider does with the POST of this call
    response,         \* local `response` (requests.Response) or NoResponse
    response_data,    \* local `response_data`
    exc,              \* exception raised inside the try block, or "none"
    ret,              \* value returned by the call
    path,             \* which return statement produced ret
    log,              \* lines printed during the running call
    posts,            \* HTTP POSTs issued during the running call
    last,             \* (path, ret) of the previous completed call
    f_pc,             \* frontend: position of the running call_flask_api
    endpoint,         \* frontend: argument `endpoint`
    f_transport,      \* frontend: what the backend / network does with the POST
    f_response,       \* frontend: local `response`
    f_exc,            \* frontend: exception in flight, or "none"
    f_ret,            \* frontend: value returned by call_flask_api
    st_errors         \* frontend: messages shown with st.error during the call

\* the state of the Streamlit frontend's helper
fvars == <<f_pc, endpoint, f_transport, f_response, f_exc, f_ret, st_errors>>

\* the state of the Flask backend's helper
bvars == <<ibm_api_key, ibm_project_id, pc, prompt_text, transport, response,
           response_data, exc, ret, path, log, posts, last>>

vars == <<bvars, fvars>>

----------------------------------------------------------------------------
(* Bounds *)

\* longest "results" array the provider sends
MaxResults == 2

(* Program constants *)

\* timeout=60 of requests.post
TIMEOUT == 60

----------------------------------------------------------------------------
(* Python values: None, bool, int, str, list, dict (string keys) *)

None == [t |-> "None"]
PyBool(b) == [t |-> "bool", b |-> b]
PyInt(n) == [t |-> "int", n |-> n]
PyStr(s) == [t |-> "str", s |-> s]
PyList(a) == [t |-> "list", a |-> a]
PyDict(o) == [t |-> "dict", o |-> o]

\* bool(v), as used by `not x` and by the left operand of `and`
Truthy(v) ==
    CASE v.t = "None" -> FALSE
      [] v.t = "bool" -> v.b
      [] v.t = "int"  -> v.n # 0
      [] v.t = "str"  -> Len(v.s) > 0
      [] v.t = "list" -> Len(v.a) > 0
      [] v.t = "dict" -> DOMAIN v.o # {}

\* substring test of str.__contains__
Substring(sub, s) ==
    \E i \in 1..(Len(s) - Len(sub) + 1) : SubSeq(s, i, i + Len(sub) - 1) = sub

\* types whose instances support `key in v`
SupportsIn(v) == v.t \in {"str", "list", "dict"}

\* `key in v` for a str key
In(key, v) ==
    CASE v.t = "dict" -> key \in DOMAIN v.o
      [] v.t = "list" -> \E i \in 1..Len(v.a) : v.a[i] = PyStr(key)
      [] v.t = "str"  -> Substring(key, v.s)

\* types whose instances support len()
SupportsLen(v) == v.t \in {"str", "list", "dict"}

\* len(v)
PyLen(v) ==
    CASE v.t = "dict" -> Cardinality(DOMAIN v.o)
      [] v.t = "list" -> Len(v.a)
      [] v.t = "str"  -> Len(v.s)

\* a plausible slip: v[-1] taken for v[0]
GetItemLast(v) ==
    CASE v.t = "list" -> v.a[Len(v.a)]
      [] v.t = "str"  -> PyStr(SubSeq(v.s, Len(v.s), Len(v.s)))

\* v[0] for a non-empty list or str
GetItem0(v) ==
    CASE v.t = "list" -> v.a[1]
      [] v.t = "str"  -> PyStr(SubSeq(v.s, 1, 1))

\* d.get(key, default) of a dict
DictGet(d, key, default) ==
    IF key \in DOMAIN d.o THEN d.o[key] ELSE default

----------------------------------------------------------------------------
(* Exception classes: direct bases, as in requests.exceptions and builtins *)

Bases(c) ==
    CASE c = "ReadTimeout"             -> {"Timeout"}
      [] c = "ConnectTimeout"          -> {"ConnectionError", "Timeout"}
      [] c = "Timeout"                 -> {"RequestException"}
      [] c = "SSLError"                -> {"ConnectionError"}
      [] c = "ProxyError"              -> {"ConnectionError"}
      [] c = "ConnectionError"         -> {"RequestException"}
      [] c = "HTTPError"               -> {"RequestException"}
      [] c = "TooManyRedirects"        -> {"RequestException"}
      [] c = "ChunkedEncodingError"    -> {"RequestException"}
      [] c = "InvalidHeader"           -> {"RequestException", "ValueError"}
      [] c = "RequestsJSONDecodeError" -> {"InvalidJSONError", "JSONDecodeError"}
      [] c = "InvalidJSONError"        -> {"RequestException"}
      [] c = "RequestException"        -> {"OSError"}
      [] c = "JSONDecodeError"         -> {"ValueError"}
      [] c = "KeyError"                -> {"LookupError"}
      [] c \in {"OSError", "ValueError", "TypeError", "AttributeError",
                "LookupError"}         -> {"Exception"}
      [] OTHER                         -> {}

RECURSIVE Ancestors(_)
Ancestors(c) == {c} \cup UNION {Ancestors(b) : b \in Bases(c)}

IsInstance(c, h) == h \in Ancestors(c)

----------------------------------------------------------------------------
(* The strings get_granite_response returns *)

ConfigMsg == "Error: IBM API Key or Project ID is not configured."
DefaultText == "No text generated."
ShapeMsg == "An unexpected response format was received from the AI."
TimeoutMsg == "The AI took too long to respond. Please try again."
ConnectMsg == "Could not connect to the AI service. Please check your network connection."
MalformedMsg == "Received an unreadable response from the AI service."
InternalMsg == "An internal error occurred while processing your request with the AI."

\* a plausible slip: the status code left out of the returned message
HTTPErrorMsgNoStatus(status_code) ==
    "An API error occurred. Please check your credentials or API usage."

\* f"An API error occurred: {e.response.status_code}. Please check ..."
HTTPErrorMsg(status_code) ==
    "An API error occurred: " \o ToString(status_code)
        \o ". Please check your credentials or API usage."

----------------------------------------------------------------------------
(* The environment: credentials, prompts, transport behaviours *)

\* os.getenv gives None for an unset variable, else its string
EnvValues(name) == {None, PyStr(""), PyStr(name)}

Prompts == {"What helps a headache?", "List flu symptoms"}

\* texts the provider may generate
GeneratedTexts == {"Take two aspirin", TimeoutMsg, DefaultText}

\* values the provider may put in the results array
Elems ==
    {PyDict([generated_text |-> PyStr(g)]) : g \in GeneratedTexts}
    \cup {PyDict([generated_text |-> None]), PyDict(<<>>), PyInt(5), PyStr("x")}

RECURSIVE SeqsUpTo(_, _)
SeqsUpTo(S, n) ==
    IF n = 0 THEN {<<>>}
    ELSE LET shorter == SeqsUpTo(S, n - 1)
         IN  shorter \cup {Append(q, e) : q \in {r \in shorter : Len(r) = n - 1}, e \in S}

\* values the provider may send under the "results" key
ResultsValues ==
    {PyList(a) : a \in SeqsUpTo(Elems, MaxResults)}
    \cup {None, PyInt(0), PyInt(5), PyStr(""), PyStr("abc"),
          PyDict(<<>>), PyDict([a |-> PyInt(1)])}

\* bodies that parse as JSON, as the Python value response.json() gives
JsonBodies ==
    {PyDict([results |-> r]) : r \in ResultsValues}
    \cup {None, PyBool(TRUE), PyBool(FALSE), PyInt(0), PyInt(5),
          PyStr(""), PyStr("abc"), PyStr("no results"),
          PyList(<<>>), PyList(<<PyInt(1)>>), PyList(<<PyStr("results")>>),
          PyDict(<<>>), PyDict([error |-> PyStr("quota exceeded")])}

\* response bodies: parseable JSON (with its parsed value) or other text
Bodies ==
    {[json |-> TRUE, value |-> v] : v \in JsonBodies}
    \cup {[json |-> FALSE, text |-> x] : x \in {"", "<html>error</html>"}}

StatusCodes == {200, 204, 399, 400, 404, 500, 599, 600}

\* exceptions requests.post raises besides timeouts
Faults == {"ConnectionError", "SSLError", "ProxyError",
           "ChunkedEncodingError", "TooManyRedirects", "InvalidHeader"}

NoTransport == [k |-> "none"]
NoResponse == [k |-> "none"]

\* everything the network and the provider can do with one POST
Behaviours ==
    {[k |-> "stall", phase |-> ph, secs |-> TIMEOUT + 1] : ph \in {"connect", "read"}}
    \cup {[k |-> "fault", cls |-> c] : c \in Faults}
    \cup {[k |-> "response", status_code |-> s, body |-> b] :
              s \in StatusCodes, b \in Bodies}

----------------------------------------------------------------------------
(* The steps of get_granite_response *)

Unbound == [t |-> "unbound"]
NoCall == [path |-> "none", ret |-> Unbound]

\* a plausible slip: `and` written for `or` in the guard
ConfigMissingAnd(api_key, project_id) == ~Truthy(api_key) /\ ~Truthy(project_id)

\* if not ibm_api_key or not ibm_project_id
ConfigMissing(api_key, project_id) == ~Truthy(api_key) \/ ~Truthy(project_id)

\* the exception requests.post(..., timeout=60) raises, "none" when it returns
PostRaises(b) ==
    CASE b.k = "stall" ->
            IF b.secs > TIMEOUT
            THEN (IF b.phase = "connect" THEN "ConnectTimeout" ELSE "ReadTimeout")
            ELSE "none"
      [] b.k = "fault" -> b.cls
      [] b.k = "response" -> "none"

\* response.raise_for_status() raises HTTPError for 4xx and 5xx
RaisesForStatus(status_code) == 400 <= status_code /\ status_code < 600

\* the test of line 79 and the branch it selects: a return value, the else
\* branch, or the exception an operand raises
ShapeStep(rd) ==
    IF ~Truthy(rd) THEN [k |-> "else"]
    ELSE IF ~SupportsIn(rd) THEN [k |-> "raise", cls |-> "TypeError"]
    ELSE IF ~In("results", rd) THEN [k |-> "else"]
    ELSE IF rd.t # "dict" THEN [k |-> "raise", cls |-> "TypeError"]
    ELSE LET results == rd.o["results"] IN
         IF ~SupportsLen(results) THEN [k |-> "raise", cls |-> "TypeError"]
         ELSE IF ~(PyLen(results) > 0) THEN [k |-> "else"]
         ELSE IF results.t = "dict" THEN [k |-> "raise", cls |-> "KeyError"]
         ELSE LET first == GetItem0(results) IN
              IF first.t # "dict" THEN [k |-> "raise", cls |-> "AttributeError"]
              ELSE [k |-> "return",
                    v |-> DictGet(first, "generated_text", PyStr(DefaultText))]

\* a plausible slip: the catch-all clause left out
HandlersNoCatchAll == <<"Timeout", "ConnectionError", "HTTPError", "JSONDecodeError">>

\* a plausible slip: ConnectionError tested before Timeout
HandlersConnectionFirst ==
    <<"ConnectionError", "Timeout", "HTTPError", "JSONDecodeError", "Exception">>

\* a plausible slip: no clause for undecodable bodies
HandlersNoJSON == <<"Timeout", "ConnectionError", "HTTPError", "Exception">>

\* the except clauses, in source order
Handlers == <<"Timeout", "ConnectionError", "HTTPError", "JSONDecodeError", "Exception">>

\* the clause that handles an exception of class c: the first that matches
\* ("none" when no clause matches and the exception propagates)
Dispatch(c) ==
    LET matching == {i \in 1..Len(Handlers) : IsInstance(c, Handlers[i])}
    IN  IF matching = {} THEN "none"
        ELSE Handlers[CHOOSE i \in matching : \A j \in matching : i <= j]

\* what each except clause prints
HandlerLog(h) ==
    CASE h = "Timeout" ->
            [msg |-> "Error: Request to IBM Granite API timed out.", arg |-> None]
      [] h = "ConnectionError" ->
            [msg |-> "Error: Could not connect to IBM Granite API. Check network and API URL.",
             arg |-> None]
      [] h = "HTTPError" ->
            [msg |-> "HTTP Error calling IBM Granite API: "
                        \o ToString(response.status_code) \o " - ",
             arg |-> response.body]
      [] h = "JSONDecodeError" ->
            [msg |-> "Error: Could not decode JSON from API response: ",
             arg |-> response.body]
      [] h = "Exception" ->
            [msg |-> "An unexpected error occurred while interacting with IBM Granite API: ",
             arg |-> exc]

\* what each except clause returns
HandlerReturn(h) ==
    CASE h = "Timeout" -> PyStr(TimeoutMsg)
      [] h = "ConnectionError" -> PyStr(ConnectMsg)
      [] h = "HTTPError" -> PyStr(HTTPErrorMsg(response.status_code))
      [] h = "JSONDecodeError" -> PyStr(MalformedMsg)
      [] h = "Exception" -> PyStr(InternalMsg)

----------------------------------------------------------------------------
(* Actions *)

Init ==
    /\ ibm_api_key \in EnvValues("key")
    /\ ibm_project_id \in EnvValues("project")
    /\ pc = "idle"
    /\ prompt_text = ""
    /\ transport = NoTransport
    /\ response = NoResponse
    /\ response_data = Unbound
    /\ exc = "none"
    /\ ret = Unbound
    /\ path = "none"
    /\ log = <<>>
    /\ posts = 0
    /\ last = NoCall
    /\ f_pc = "idle"
    /\ endpoint = ""
    /\ f_transport = NoTransport
    /\ f_response = NoResponse
    /\ f_exc = "none"
    /\ f_ret = Unbound
    /\ st_errors = <<>>

\* a route handler calls get_granite_response(prompt)
Call(p) ==
    /\ pc = "idle"
    /\ pc' = "guard"
    /\ prompt_text' = p
    /\ UNCHANGED <<fvars, ibm_api_key, ibm_project_id, transport, response,
                   response_data, exc, ret, path, log, posts, last>>

\* lines 39-40
Guard ==
    /\ pc = "guard"
    /\ IF ConfigMissing(ibm_api_key, ibm_project_id)
       THEN /\ ret' = PyStr(ConfigMsg)
            /\ path' = "guard"
            /\ pc' = "done"
       ELSE /\ pc' = "post"
            /\ UNCHANGED <<ret, path>>
    /\ UNCHANGED <<fvars, ibm_api_key, ibm_project_id, prompt_text, transport, response,
                   response_data, exc, log, posts, last>>

\* line 71, issuing n requests
SendPost(n) ==
    /\ pc = "post"
    /\ \E b \in Behaviours :
         /\ transport' = b
         /\ posts' = posts + n
         /\ IF PostRaises(b) # "none"
            THEN /\ exc' = PostRaises(b)
                 /\ pc' = "except"
                 /\ UNCHANGED response
            ELSE /\ response' = [status_code |-> b.status_code, body |-> b.body]
                 /\ pc' = "raise_for_status"
                 /\ UNCHANGED exc
    /\ UNCHANGED <<fvars, ibm_api_key, ibm_project_id, prompt_text,
                   response_data, ret, path, log, last>>

\* a plausible slip: the request sent again
PostTwice == SendPost(2)

\* line 71: response = requests.post(API_URL, ..., timeout=60)
Post == SendPost(1)

\* line 72: response.raise_for_status()
RaiseForStatus ==
    /\ pc = "raise_for_status"
    /\ IF RaisesForStatus(response.status_code)
       THEN /\ exc' = "HTTPError"
            /\ pc' = "except"
       ELSE /\ pc' = "json"
            /\ UNCHANGED exc
    /\ UNCHANGED <<fvars, ibm_api_key, ibm_project_id, prompt_text, transport, response,
                   response_data, ret, path, log, posts, last>>

\* line 75: response_data = response.json()
ParseJson ==
    /\ pc = "json"
    /\ IF response.body.json
       THEN /\ response_data' = response.body.value
            /\ pc' = "shape"
            /\ UNCHANGED exc
       ELSE /\ exc' = "RequestsJSONDecodeError"
            /\ pc' = "except"
            /\ UNCHANGED response_data
    /\ UNCHANGED <<fvars, ibm_api_key, ibm_project_id, prompt_text, transport, response,
                   ret, path, log, posts, last>>

\* lines 79-83
CheckShape ==
    /\ pc = "shape"
    /\ LET step == ShapeStep(response_data) IN
         CASE step.k = "return" ->
                /\ ret' = step.v
                /\ path' = "success"
                /\ pc' = "done"
                /\ UNCHANGED <<exc, log>>
           [] step.k = "else" ->
                /\ log' = Append(log, [msg |-> "Unexpected API response structure: ",
                                       arg |-> response_data])
                /\ ret' = PyStr(ShapeMsg)
                /\ path' = "else"
                /\ pc' = "done"
                /\ UNCHANGED exc
           [] step.k = "raise" ->
                /\ exc' = step.cls
                /\ pc' = "except"
                /\ UNCHANGED <<ret, path, log>>
    /\ UNCHANGED <<fvars, ibm_api_key, ibm_project_id, prompt_text, transport, response,
                   response_data, posts, last>>

\* lines 85-100: the first matching except clause prints and returns
Except ==
    /\ pc = "except"
    /\ LET h == Dispatch(exc) IN
         IF h = "none"
         THEN /\ pc' = "raised"
              /\ UNCHANGED <<ret, path, log>>
         ELSE /\ log' = Append(log, HandlerLog(h))
              /\ ret' = HandlerReturn(h)
              /\ path' = h
              /\ pc' = "done"
    /\ UNCHANGED <<fvars, ibm_api_key, ibm_project_id, prompt_text, transport, response,
                   response_data, exc, posts, last>>

\* the call returns ret to the route handler and its frame is dropped
Return ==
    /\ pc = "done"
    /\ pc' = "idle"
    /\ last' = [path |-> path, ret |-> ret]
    /\ prompt_text' = ""
    /\ transport' = NoTransport
    /\ response' = NoResponse
    /\ response_data' = Unbound
    /\ exc' = "none"
    /\ ret' = Unbound
    /\ path' = "none"
    /\ log' = <<>>
    /\ posts' = 0
    /\ UNCHANGED <<fvars, ibm_api_key, ibm_project_id>>

Next ==
    \/ \E p \in Prompts : Call(p)
    \/ Guard
    \/ Post
    \/ RaiseForStatus
    \/ ParseJson
    \/ CheckShape
    \/ Except
    \/ Return

Spec == Init /\ [][Next]_vars

----------------------------------------------------------------------------
(* The Streamlit frontend, src/Document/streamlit_app.py: call_flask_api *)

\* the routes of the backend the four tabs call
Endpoints == {"chat", "predict_disease", "generate_treatment_plan",
              "health_analytics_insights"}

\* bodies the backend (or whatever answers on its port) may send
FlaskBodies ==
    {[json |-> TRUE, value |-> v] : v \in
        {PyDict([response |-> PyStr("Take two aspirin")]),
         PyDict([prediction |-> PyStr(InternalMsg)]),
         PyDict([error |-> PyStr("No message provided")]),
         PyDict([message |-> PyStr("Not Found")]),
         PyDict(<<>>), PyList(<<>>), PyList(<<PyInt(1)>>),
         PyStr("abc"), PyInt(5), None}}
    \cup {[json |-> FALSE, text |-> x] :
            x \in {"", "<html>500 Internal Server Error</html>"}}

\* everything the network and the backend can do with one POST
FlaskBehaviours ==
    {[k |-> "stall", phase |-> ph, secs |-> TIMEOUT + 1] : ph \in {"connect", "read"}}
    \cup {[k |-> "fault", cls |-> c] : c \in Faults}
    \cup {[k |-> "response", status_code |-> s, body |-> b] :
              s \in StatusCodes, b \in FlaskBodies}

\* the except clauses of call_flask_api, in source order
FrontHandlers == <<"ConnectionError", "HTTPError", "RequestException", "JSONDecodeError">>

\* the clause of call_flask_api that handles an exception of class c
FrontDispatch(c) ==
    LET matching == {i \in 1..Len(FrontHandlers) : IsInstance(c, FrontHandlers[i])}
    IN  IF matching = {} THEN "none"
        ELSE FrontHandlers[CHOOSE i \in matching : \A j \in matching : i <= j]

\* e.response.json().get('error', 'Unknown API error') of line 54: the value,
\* or the exception the expression raises
HTTPErrorDetail(r) ==
    IF ~r.body.json THEN [k |-> "raise", cls |-> "RequestsJSONDecodeError"]
    ELSE IF r.body.value.t # "dict" THEN [k |-> "raise", cls |-> "AttributeError"]
    ELSE [k |-> "value",
          v |-> DictGet(r.body.value, "error", PyStr("Unknown API error"))]

\* what each except clause of call_flask_api returns
FrontReturn(h) ==
    CASE h = "ConnectionError"  -> PyDict([error |-> PyStr("Backend not reachable.")])
      [] h = "HTTPError"        -> PyDict([error |-> PyStr("API request failed.")])
      [] h = "RequestException" -> PyDict([error |-> PyStr("Request error.")])
      [] h = "JSONDecodeError"  -> PyDict([error |-> PyStr("Invalid JSON response.")])

\* what each except clause of call_flask_api shows with st.error
FrontError(h) ==
    CASE h = "ConnectionError" ->
            [msg |-> "Error: Could not connect to the Flask backend", arg |-> None]
      [] h = "HTTPError" ->
            [msg |-> "Error from Flask API (" \o ToString(f_response.status_code) \o "): ",
             arg |-> HTTPErrorDetail(f_response).v]
      [] h = "RequestException" ->
            [msg |-> "An unexpected request error occurred: ", arg |-> PyStr(f_exc)]
      [] h = "JSONDecodeError" ->
            [msg |-> "Error: Received an unreadable response from the backend.",
             arg |-> None]

\* a tab calls call_flask_api(endpoint, payload)
CallFlaskApi(e) ==
    /\ f_pc = "idle"
    /\ f_pc' = "post"
    /\ endpoint' = e
    /\ UNCHANGED <<bvars, f_transport, f_response, f_exc, f_ret, st_errors>>

\* line 45: response = requests.post(f"{FLASK_API_URL}/{endpoint}", ..., timeout=60)
FrontPost ==
    /\ f_pc = "post"
    /\ \E b \in FlaskBehaviours :
         /\ f_transport' = b
         /\ IF PostRaises(b) # "none"
            THEN /\ f_exc' = PostRaises(b)
                 /\ f_pc' = "except"
                 /\ UNCHANGED f_response
            ELSE /\ f_response' = [status_code |-> b.status_code, body |-> b.body]
                 /\ f_pc' = "raise_for_status"
                 /\ UNCHANGED f_exc
    /\ UNCHANGED <<bvars, endpoint, f_ret, st_errors>>

\* line 46: response.raise_for_status()
FrontRaiseForStatus ==
    /\ f_pc = "raise_for_status"
    /\ IF RaisesForStatus(f_response.status_code)
       THEN /\ f_exc' = "HTTPError"
            /\ f_pc' = "except"
       ELSE /\ f_pc' = "json"
            /\ UNCHANGED f_exc
    /\ UNCHANGED <<bvars, endpoint, f_transport, f_response, f_ret, st_errors>>

\* line 47: return response.json()
FrontReturnJson ==
    /\ f_pc = "json"
    /\ IF f_response.body.json
       THEN /\ f_ret' = f_response.body.value
            /\ f_pc' = "done"
            /\ UNCHANGED f_exc
       ELSE /\ f_exc' = "RequestsJSONDecodeError"
            /\ f_pc' = "except"
            /\ UNCHANGED f_ret
    /\ UNCHANGED <<bvars, endpoint, f_transport, f_response, st_errors>>

\* lines 48-61: the first matching clause shows an error and returns; an
\* exception raised while a clause runs leaves the function
FrontExcept ==
    /\ f_pc = "except"
    /\ LET h == FrontDispatch(f_exc) IN
         IF h = "none"
         THEN /\ f_pc' = "raised"
              /\ UNCHANGED <<f_exc, f_ret, st_errors>>
         ELSE IF h = "HTTPError" /\ HTTPErrorDetail(f_response).k = "raise"
         THEN /\ f_exc' = HTTPErrorDetail(f_response).cls
              /\ f_pc' = "raised"
              /\ UNCHANGED <<f_ret, st_errors>>
         ELSE /\ st_errors' = Append(st_errors, FrontError(h))
              /\ f_ret' = FrontReturn(h)
              /\ f_pc' = "done"
              /\ UNCHANGED f_exc
    /\ UNCHANGED <<bvars, endpoint, f_transport, f_response>>

\* the call returns f_ret to the tab and its frame is dropped
FrontReturnToTab ==
    /\ f_pc = "done"
    /\ f_pc' = "idle"
    /\ endpoint' = ""
    /\ f_transport' = NoTransport
    /\ f_response' = NoResponse
    /\ f_exc' = "none"
    /\ f_ret' = Unbound
    /\ st_errors' = <<>>
    /\ UNCHANGED bvars

\* the exception leaves call_flask_api; the script run of the tab ends with it
FrontPropagate ==
    /\ f_pc = "raised"
    /\ f_pc' = "idle"
    /\ endpoint' = ""
    /\ f_transport' = NoTransport
    /\ f_response' = NoResponse
    /\ f_exc' = "none"
    /\ f_ret' = Unbound
    /\ st_errors' = <<>>
    /\ UNCHANGED bvars

FrontNext ==
    \/ \E e \in Endpoints : CallFlaskApi(e)
    \/ FrontPost
    \/ FrontRaiseForStatus
    \/ FrontReturnJson
    \/ FrontExcept
    \/ FrontReturnToTab
    \/ FrontPropagate

\* the frontend helper against an arbitrary backend
FrontSpec == Init /\ [][FrontNext]_vars

----------------------------------------------------------------------------
(* Vocabulary of the claims *)

\* a credential that is empty or absent
Absent(credential) == credential = None \/ credential = PyStr("")

BothPresent == ~Absent(ibm_api_key) /\ ~Absent(ibm_project_id)

\* the ErrorKind the specification gives to each failing return statement
KindOf(p) ==
    CASE p = "guard"           -> "ConfigurationMissing"
      [] p = "Timeout"         -> "Timeout"
      [] p = "ConnectionError" -> "Unreachable"
      [] p = "HTTPError"       -> "RemoteError"
      [] p = "JSONDecodeError" -> "MalformedResponse"
      [] p = "else"            -> "UnexpectedShape"
      [] p = "Exception"       -> "Internal"
      [] OTHER                 -> "Success"

Returned == pc = "done"

GotResponse == response # NoResponse

ErrorStatus == GotResponse /\ response.status_code \in 400..599

\* a response with a non-error status and a body that parses as JSON
ParsedOk == GotResponse /\ ~ErrorStatus /\ response.body.json

\* the body is an object whose "results" is a non-empty array
HasResults(v) ==
    /\ v.t = "dict"
    /\ "results" \in DOMAIN v.o
    /\ v.o["results"].t = "list"
    /\ Len(v.o["results"].a) > 0

\* the first result is an object with a generated_text field
CarriesGeneratedText(v) ==
    /\ HasResults(v)
    /\ v.o["results"].a[1].t = "dict"
    /\ "generated_text" \in DOMAIN v.o["results"].a[1].o

----------------------------------------------------------------------------
(* Claims *)

\* C1: with the API key or the project id empty or absent, the call returns
\* the configuration-missing message from the guard, before any other step:
\* no request is issued, no transport is touched and nothing else runs.
C1_ConfigurationGuard ==
    (Absent(ibm_api_key) \/ Absent(ibm_project_id)) =>
        /\ pc \in {"idle", "guard", "done"}
        /\ posts = 0
        /\ transport = NoTransport
        /\ response = NoResponse
        /\ Returned => (path = "guard" /\ ret = PyStr(ConfigMsg))

C1_Witness ==
    /\ Returned
    /\ ibm_api_key = PyStr("")
    /\ ibm_project_id = PyStr("project")
    /\ path = "guard"

\* C2: no exception propagates out of the call, every finished call holds a
\* returned value, and an exception outside the enumerated classes (Timeout,
\* ConnectionError, HTTPError, JSONDecodeError) is returned as the internal
\* error message.
C2_NoExceptionEscapes ==
    /\ pc # "raised"
    /\ Returned => ret # Unbound
    /\ (Returned /\ exc # "none"
          /\ \A h \in {"Timeout", "ConnectionError", "HTTPError", "JSONDecodeError"} :
                ~IsInstance(exc, h))
       => (path = "Exception" /\ ret = PyStr(InternalMsg))

C2_Witness ==
    /\ Returned
    /\ exc = "TypeError"
    /\ ret = PyStr(InternalMsg)

C4_RemoteErrorCarriesStatus ==
    (Returned /\ ErrorStatus) =>
        /\ path = "HTTPError"
        /\ ret.t = "str"
        /\ Substring(ToString(response.status_code), ret.s)
        /\ Len(log) = 1
        /\ Substring(ToString(response.status_code), log[1].msg)

C4_Witness ==
    /\ Returned
    /\ ErrorStatus
    /\ response.status_code = 500
    /\ ~response.body.json
    /\ path = "HTTPError"

\* C5 (as claimed): every parseable body of a non-error response that does
\* not carry a generated text in its first result is returned as the
\* unexpected-shape message.
C5_Claimed ==
    (Returned /\ ParsedOk /\ ~CarriesGeneratedText(response.body.value)) =>
        (path = "else" /\ ret = PyStr(ShapeMsg))

\* C6 (as claimed): a non-error response whose body is an object with a
\* non-empty results array is returned as exactly the generated_text field
\* of the first result.
C6_Claimed ==
    (Returned /\ ParsedOk /\ HasResults(response.body.value)) =>
        /\ path = "success"
        /\ CarriesGeneratedText(response.body.value)
        /\ ret = response.body.value.o["results"].a[1].o["generated_text"]

\* C6 (amended): when moreover the first result is an object that has a
\* generated_text field, the call returns exactly that field's value.
C6_FirstGeneratedText ==
    (Returned /\ ParsedOk /\ CarriesGeneratedText(response.body.value)) =>
        /\ path = "success"
        /\ ret = response.body.value.o["results"].a[1].o["generated_text"]

C6_Witness ==
    /\ Returned
    /\ ParsedOk
    /\ CarriesGeneratedText(response.body.value)
    /\ Len(response.body.value.o["results"].a) = 2
    /\ response.body.value.o["results"].a[2] # response.body.value.o["results"].a[1]
    /\ ret = PyStr("Take two aspirin")

\* C7: a non-error response whose body does not parse as JSON is returned as
\* the unreadable-response message from the JSONDecodeError clause.
C7_MalformedResponse ==
    (Returned /\ GotResponse /\ ~ErrorStatus /\ ~response.body.json) =>
        (path = "JSONDecodeError" /\ ret = PyStr(MalformedMsg))

C7_Witness ==
    /\ Returned
    /\ GotResponse
    /\ response.status_code = 200
    /\ ~response.body.json
    /\ response.body.text = "<html>error</html>"
    /\ path = "JSONDecodeError"

\* C8 (as claimed): of two calls, one ending on the success path and one on
\* a failure path, the returned values differ; and so do the values of two
\* failure paths of different ErrorKind.
C8_Claimed ==
    (Returned /\ last # NoCall) =>
        /\ ((path = "success") # (last.path = "success")) => ret # last.ret
        /\ (path # "success" /\ last.path # "success"
              /\ KindOf(path) # KindOf(last.path)) => ret # last.ret

\* C9 (as claimed): every call that ends in a failure has printed at least
\* one diagnostic line before it returns.
C9_Claimed ==
    (Returned /\ path # "success") => Len(log) >= 1

\* C10: a call issues at most one POST: none up to the guard, exactly one
\* from then on when both credentials are present, and none at all otherwise;
\* no failure is followed by a second request.
C10_SinglePost ==
    /\ posts <= 1
    /\ pc \in {"raise_for_status", "json", "shape", "except"} => posts = 1
    /\ Returned => posts = (IF BothPresent THEN 1 ELSE 0)

C10_Witness ==
    /\ Returned
    /\ BothPresent
    /\ path = "ConnectionError"
    /\ posts = 1

\* the frontend call has finished by returning
FrontReturned == f_pc = "done"

FrontGotResponse == f_response # NoResponse

FrontErrorStatus == FrontGotResponse /\ f_response.status_code \in 400..599

\* C11 (as claimed): call_flask_api never raises and always returns a dict:
\* one with an "error" key after a connection failure, a timeout, an error
\* status (whatever the body) or a success status with a non-JSON body, and
\* the parsed body after a success status with a JSON body.
C11_Claimed ==
    /\ f_pc # "raised"
    /\ FrontReturned =>
        /\ f_ret.t = "dict"
        /\ (~FrontGotResponse \/ FrontErrorStatus \/ ~f_response.body.json)
              => "error" \in DOMAIN f_ret.o
        /\ (FrontGotResponse /\ ~FrontErrorStatus /\ f_response.body.json)
              => f_ret = f_response.body.value

====
